---- MODULE Spec2Model ----
(***************************************************************************)
(* The write path of the system-image service: create_system_image,        *)
(* update_system_image and delete_system_image, as written in src/app.py   *)
(* and in src/routes/route_system_image.py, sequencing three collaborators *)
(* that fail independently: the upload folder (files), the database        *)
(* session (records) and the RabbitMQ publisher (events).                  *)
(*                                                                         *)
(* One action is one collaborator call of a handler together with the      *)
(* local statements that follow it up to the next call.  Every call that   *)
(* can raise has a failing outcome; where the exception goes follows the   *)
(* try/except blocks of the source.                                        *)
(***************************************************************************)
EXTENDS Integers, Sequences, FiniteSets, TLC

\* ------------------------------------------------------------------ bounds
\* Requests received over a behaviour.
MaxReq == 2

\* Seconds the clock advances over a behaviour.
MaxNow == 1

\* ------------------------------------------------------------ value domains
\* Python's None for an image path, an id not yet assigned, a missing field.
None == 0
NoneStr == "None"

Names == {"n1", "n2"}
OsTypes == {"o1"}
Versions == {"v1"}
Descriptions == {NoneStr, "d1"}

\* The upload part of a request: absent, a file part with an empty filename,
\* a file whose extension is allowed, a file whose extension is not.
Images == {"absent", "empty", "png", "exe"}

\* Which module's handlers serve the requests: app.py defines its own routes
\* (run.py starts "app:app"); routes/route_system_image.py defines the router.
Impls == {"app", "routes"}

Slots == 1..MaxReq

VARIABLES
    impl,       \* the module whose handlers are mounted
    records,    \* system_images table: id -> row, for the rows that exist
    nextId,     \* the table's AUTO_INCREMENT counter
    files,      \* the paths that exist under IMAGE_UPLOAD_FOLDER
    nextKey,    \* stands for uuid.uuid4(): the next path never used before
    events,     \* the messages delivered to the exchange, in order
    reqs,       \* slot -> the request in it, running or just answered
    started,    \* requests received so far
    now         \* the clock, in whole seconds as a DATETIME column keeps them

vars == <<impl, records, nextId, files, nextKey, events, reqs, started, now>>

\* ------------------------------------------------------------------- rows
\* SystemImage (src/app.py:115-125).  created_at is left out: it is written by
\* the INSERT only and no handler reads it.
Row(id, name, os_type, version, description, image_path, updated_at) ==
    [id |-> id, name |-> name, os_type |-> os_type, version |-> version,
     description |-> description, image_path |-> image_path,
     updated_at |-> updated_at]

NoRow == Row(None, NoneStr, NoneStr, NoneStr, NoneStr, None, 0)

\* The payload is built without the description.
SystemImageDictNoDescription(o) ==
    [id |-> o.id, name |-> o.name, os_type |-> o.os_type, version |-> o.version,
     description |-> NoneStr, image_path |-> o.image_path]

\* system_image_dict, the payload the handlers build for the publisher.
SystemImageDict(o) ==
    [id |-> o.id, name |-> o.name, os_type |-> o.os_type, version |-> o.version,
     description |-> o.description, image_path |-> o.image_path]

\* --------------------------------------------------------------- requests
\* The form fields of a request; NoneStr for a field the form does not carry.
Form(name, os_type, version, description) ==
    [name |-> name, os_type |-> os_type, version |-> version,
     description |-> description]

\* A request: the handler's position (pc), parameters and locals, the status
\* it answered, the collaborator calls it made so far with their outcomes
\* (log), the messages it handed to the publisher (sent), the row its commit
\* wrote or removed (row) and the slots whose requests had committed before
\* its own commit (prior), and the table, the folder and the exchange as they
\* were when it was received.
Idle == [op |-> "idle", pc |-> "idle", id |-> None, image |-> "absent",
         form |-> Form(NoneStr, NoneStr, NoneStr, NoneStr),
         obj |-> NoRow, loaded |-> NoRow,
         old_image_path |-> None, new_image_path |-> None,
         status |-> 0, log |-> <<>>, sent |-> <<>>,
         row |-> NoRow, prior |-> {},
         recs0 |-> <<>>, files0 |-> {}, events0 |-> <<>>]

Running(r) == reqs[r].op # "idle" /\ reqs[r].pc # "done"

\* A new request takes the lowest slot in which none is running.
FreeSlot(r) ==
    /\ ~Running(r)
    /\ \A s \in Slots : s < r => Running(s)
    /\ started < MaxReq

\* The catalog when the process starts serving: the empty table create_tables
\* makes, or one row that an earlier create_system_image committed, with its
\* image file when it has one.
Init ==
    /\ impl \in Impls
    /\ \/ /\ records = <<>>
          /\ nextId = 1
          /\ files = {}
          /\ nextKey = 1
       \/ /\ \E p \in {None, 1} :
                /\ records = (1 :> Row(1, "n1", "o1", "v1", "d1", p, 0))
                /\ files = {p} \ {None}
          /\ nextId = 2
          /\ nextKey = 2
    /\ events = <<>>
    /\ reqs = [r \in Slots |-> Idle]
    /\ started = 0
    /\ now = 0

\* ------------------------------------------------ decisions of the handlers
\* Every file part is stored, its filename empty or not.
HasUploadAnyPart(image) == image # "absent"

\* The request carries a file the handler stores: `if image:` then
\* handle_image_upload's own `if file and file.filename` in app.py,
\* `if image and image.filename` in the router.
HasUpload(image) == image \in {"png", "exe"}

\* No handler checks the extension.
RejectedNever(im, image) == FALSE

\* The router's extension check (allowed_extensions); app.py has none.
Rejected(im, image) == im = "routes" /\ image = "exe"

\* No handler takes an empty file part as the request to drop the image.
ClearsNever(im, image) == FALSE

\* The router's `elif image is not None and not image.filename` branch of
\* update_system_image; app.py has no such branch.
Clears(im, image) == im = "routes" /\ image = "empty"

\* The extension is checked before the row is looked up.
FirstAnswerValidatesFirst(found, rejected) ==
    IF rejected THEN 400 ELSE IF ~found THEN 404 ELSE 0

\* What a handler answers before it has called the folder or committed: 404
\* when the query finds no row, then 400 for a refused extension; 0 when it
\* goes on.
FirstAnswer(found, rejected) ==
    IF ~found THEN 404 ELSE IF rejected THEN 400 ELSE 0

\* update keeps the old image when it has stored a new one.
AfterUploadKeepsOld(op) == "commit"

\* The statement after handle_image_upload returned: update goes on to delete
\* the old image, create to build and insert the object.
AfterUpload(op) == IF op = "update" THEN "rmold_chk" ELSE "commit"

\* The router overwrites a field only when the form supplied it; app.py
\* assigns name, os_type, version and description unconditionally.
Assign(im, old, new) == IF im = "routes" /\ new = NoneStr THEN old ELSE new

\* The except block compensates nothing.
ExceptTargetNone(q) == None

\* delete's except block removes the record's image as well.
ExceptTargetInDelete(q) ==
    CASE q.op = "create" -> q.new_image_path
      [] q.op = "update" -> IF q.new_image_path # q.old_image_path
                            THEN q.new_image_path ELSE None
      [] OTHER -> q.old_image_path

\* What the except block hands to delete_image_file: the uploaded path in
\* create, the new path when it differs from the old one in update, nothing
\* in delete.
ExceptTarget(q) ==
    CASE q.op = "create" -> q.new_image_path
      [] q.op = "update" -> IF q.new_image_path # q.old_image_path
                            THEN q.new_image_path ELSE None
      [] OTHER -> None

\* Where an exception raised at pc goes: the calls inside `try:` reach the
\* except block; handle_image_upload and update's deletion of the old image
\* are outside it, and so is a raise from within the except block itself:
\* those leave the handler (500).
InsideTry(pc) == pc \in {"commit", "refresh", "publish", "rmart_chk", "rmart_rm"}

\* delete removes the image file right after its commit and publishes nothing.
AfterCommitRemovesFirst(op) == IF op = "delete" THEN "rmart_chk" ELSE "refresh"

\* The statement after a successful db.commit(): db.refresh in create and
\* update, the publish call in delete.
AfterCommit(op) == IF op = "delete" THEN "publish" ELSE "refresh"

\* delete returns right after its publish call.
AfterPublishReturns(op) == "done"

\* The statement after the publish call: `return system_image` in create and
\* update, the removal of the image file in delete.
AfterPublish(op) == IF op = "delete" THEN "rmart_chk" ELSE "done"

\* Status of a normal return.
SuccessStatus(op) == IF op = "create" THEN 201 ELSE 200

\* The publisher is not part of the handlers' sources; its contract is
\* fire-and-forget: a failed publish is logged by the publisher and never
\* raised into the handler.
PublishRaises == FALSE

\* ---------------------------------------------------------------- helpers
Log(q, e) == Append(q.log, e)

Set(r, q) == reqs' = [reqs EXCEPT ![r] = q]

\* A request is received in slot r; the requests already answered are gone
\* with their sessions (get_db closes them).
Receive(r, q) ==
    /\ FreeSlot(r)
    /\ started' = started + 1
    /\ reqs' = [s \in Slots |->
                  IF s = r THEN [q EXCEPT !.recs0 = records, !.files0 = files,
                                          !.events0 = events]
                  ELSE IF Running(s) THEN reqs[s] ELSE Idle]

\* A failed upload is swallowed and the handler goes on without the image.
RaiseUploadSwallowed(q, e) ==
    IF q.pc = "upload"
    THEN [q EXCEPT !.pc = "commit", !.log = Log(q, e)]
    ELSE IF InsideTry(q.pc)
    THEN [q EXCEPT !.pc = IF ExceptTarget(q) # None THEN "comp_chk" ELSE "rollback",
                   !.log = Log(q, e)]
    ELSE [q EXCEPT !.pc = "done", !.status = 500, !.log = Log(q, e)]

\* A commit that failed is attempted once more.
RaiseRetriesCommit(q, e) ==
    IF q.pc = "commit" /\ \A i \in DOMAIN q.log : q.log[i] # "commit_fail"
    THEN [q EXCEPT !.log = Log(q, e)]
    ELSE IF InsideTry(q.pc)
    THEN [q EXCEPT !.pc = IF ExceptTarget(q) # None THEN "comp_chk" ELSE "rollback",
                   !.log = Log(q, e)]
    ELSE [q EXCEPT !.pc = "done", !.status = 500, !.log = Log(q, e)]

\* An exception leaving a collaborator call made at q.pc.
Raise(q, e) ==
    IF InsideTry(q.pc)
    THEN [q EXCEPT !.pc = IF ExceptTarget(q) # None THEN "comp_chk" ELSE "rollback",
                   !.log = Log(q, e)]
    ELSE [q EXCEPT !.pc = "done", !.status = 500, !.log = Log(q, e)]

\* The row an UPDATE writes: the columns the session changed, over the row as
\* it is in the table now.
Flush(cur, loaded, obj) ==
    [c \in DOMAIN cur |-> IF obj[c] # loaded[c] THEN obj[c] ELSE cur[c]]

\* ---------------------------------------------------------------- actions
\* POST /system-images/: the extension check, then on to the upload or, with
\* no file to store, to the insert.
StartCreate(r, name, os_type, version, description, image) ==
    /\ LET q == [Idle EXCEPT !.op = "create", !.image = image,
                             !.form = Form(name, os_type, version, description),
                             !.obj = Row(None, name, os_type, version, description, None, 0)]
           a == FirstAnswer(TRUE, Rejected(impl, image))
       IN  Receive(r, IF a # 0
                      THEN [q EXCEPT !.pc = "done", !.status = a]
                      ELSE [q EXCEPT !.pc = IF HasUpload(image) THEN "upload" ELSE "commit"])
    /\ UNCHANGED <<impl, records, nextId, files, nextKey, events, now>>

\* PUT /system-images/{id}: the query, the 404, the extension check, and the
\* assignments to the loaded object.
StartUpdate(r, id, name, os_type, version, description, image) ==
    /\ impl = "app" => name # NoneStr /\ os_type # NoneStr /\ version # NoneStr
    /\ LET q == [Idle EXCEPT !.op = "update", !.id = id, !.image = image,
                             !.form = Form(name, os_type, version, description)]
           a == FirstAnswer(id \in DOMAIN records, Rejected(impl, image))
       IN
       IF a # 0
       THEN Receive(r, [q EXCEPT !.pc = "done", !.status = a])
       ELSE LET row == records[id]
                o == [row EXCEPT !.name = Assign(impl, row.name, name),
                                 !.os_type = Assign(impl, row.os_type, os_type),
                                 !.version = Assign(impl, row.version, version),
                                 !.description = Assign(impl, row.description, description)]
                u == [q EXCEPT !.loaded = row, !.obj = o,
                               !.old_image_path = row.image_path,
                               !.new_image_path = row.image_path]
            IN  Receive(r, CASE HasUpload(image) -> [u EXCEPT !.pc = "upload"]
                             [] Clears(impl, image) ->
                                  [u EXCEPT !.pc = "rmold_chk", !.new_image_path = None]
                             [] OTHER -> [u EXCEPT !.pc = "commit"])
    /\ UNCHANGED <<impl, records, nextId, files, nextKey, events, now>>

\* DELETE /system-images/{id}: the query, the 404, the snapshot for the event.
StartDelete(r, id) ==
    /\ LET q == [Idle EXCEPT !.op = "delete", !.id = id]
           a == FirstAnswer(id \in DOMAIN records, FALSE)
       IN
       IF a # 0
       THEN Receive(r, [q EXCEPT !.pc = "done", !.status = a])
       ELSE Receive(r, [q EXCEPT !.pc = "commit", !.loaded = records[id],
                                 !.obj = records[id],
                                 !.old_image_path = records[id].image_path])
    /\ UNCHANGED <<impl, records, nextId, files, nextKey, events, now>>

\* handle_image_upload: a fresh path; the copy succeeds, or open() raises and
\* nothing is written, or copyfileobj raises and the file stays, cut short.
Upload(r) ==
    /\ reqs[r].pc = "upload"
    /\ LET q == reqs[r] IN
       \/ /\ files' = files \cup {nextKey}
          /\ nextKey' = nextKey + 1
          /\ Set(r, [q EXCEPT !.new_image_path = nextKey,
                              !.pc = AfterUpload(q.op),
                              !.log = Log(q, "put")])
       \/ /\ UNCHANGED <<files, nextKey>>
          /\ Set(r, Raise(q, "put_fail"))
       \/ /\ files' = files \cup {nextKey}
          /\ nextKey' = nextKey + 1
          /\ Set(r, Raise(q, "put_partial"))
    /\ UNCHANGED <<impl, records, nextId, events, started, now>>

\* The three places that call delete_image_file, by the caller's position.
DeleteTarget(q) ==
    CASE q.pc \in {"rmold_chk", "rmold_rm"} -> q.old_image_path
      [] q.pc \in {"comp_chk", "comp_rm"} -> ExceptTarget(q)
      [] OTHER -> q.old_image_path

\* The statement after a call of delete_image_file that returned.
AfterDelete(q) ==
    CASE q.pc \in {"rmold_chk", "rmold_rm"} -> [q EXCEPT !.pc = "commit"]
      [] q.pc \in {"comp_chk", "comp_rm"} -> [q EXCEPT !.pc = "rollback"]
      [] OTHER -> [q EXCEPT !.pc = "done", !.status = SuccessStatus(q.op)]

RemovedEntry(q) ==
    CASE q.pc = "rmold_rm" -> "rm_old"
      [] q.pc = "comp_rm" -> "rm_new"
      [] OTHER -> "rm_art"

\* os.remove is called on every path that is not None.
ExistsUnchecked(image_path, folder) == image_path # None

\* `image_path and os.path.exists(image_path)`.
Exists(image_path, folder) == image_path # None /\ image_path \in folder

\* delete_image_file, its test: `if image_path and os.path.exists(image_path)`
\* (the callers' own `if old_image_path` / `if image_path` tests included).
DeleteImageFileExists(r) ==
    /\ reqs[r].pc \in {"rmold_chk", "comp_chk", "rmart_chk"}
    /\ LET q == reqs[r] IN
       Set(r, IF Exists(DeleteTarget(q), files)
              THEN [q EXCEPT !.pc = CASE q.pc = "rmold_chk" -> "rmold_rm"
                                      [] q.pc = "comp_chk" -> "comp_rm"
                                      [] OTHER -> "rmart_rm"]
              ELSE AfterDelete(q))
    /\ UNCHANGED <<impl, records, nextId, files, nextKey, events, started, now>>

\* delete_image_file, its os.remove: the file goes, or os.remove raises and
\* the file stays (it raises too when the file went since the test).
DeleteImageFileRemove(r) ==
    /\ reqs[r].pc \in {"rmold_rm", "comp_rm", "rmart_rm"}
    /\ LET q == reqs[r] IN
       \/ /\ DeleteTarget(q) \in files
          /\ files' = files \ {DeleteTarget(q)}
          /\ Set(r, [AfterDelete(q) EXCEPT !.log = Log(q, RemovedEntry(q))])
       \/ /\ files' = files
          /\ Set(r, Raise(q, RemovedEntry(q) \o "_fail"))
    /\ UNCHANGED <<impl, records, nextId, nextKey, events, started, now>>

\* db.add / db.delete / the pending UPDATE, and db.commit(): the transaction
\* commits, or commit raises and the table is as it was.  The UPDATE of a row
\* that is gone matches no row, which the session raises at flush.
\* updated_at is the second the clock shows: func.now() in the INSERT,
\* `system_image.updated_at = datetime.now()` right before update's commit.
Commit(r) ==
    /\ reqs[r].pc = "commit"
    /\ LET q == reqs[r]
           o == [q.obj EXCEPT !.image_path = q.new_image_path,
                              !.updated_at = now]
           before == {s \in Slots \ {r} : \E i \in DOMAIN reqs[s].log :
                                               reqs[s].log[i] = "commit"}
           ok(o2, w) == [q EXCEPT !.obj = o2, !.pc = AfterCommit(q.op),
                                  !.log = Log(q, "commit"),
                                  !.row = w, !.prior = before]
       IN
       \/ /\ q.op = "create"
          /\ records' = records @@ (nextId :> [o EXCEPT !.id = nextId])
          /\ nextId' = nextId + 1
          /\ Set(r, [ok([o EXCEPT !.id = nextId], [o EXCEPT !.id = nextId])
                       EXCEPT !.id = nextId])
       \/ /\ q.op = "update"
          /\ q.id \in DOMAIN records
          /\ records' = [records EXCEPT ![q.id] = Flush(records[q.id], q.loaded, o)]
          /\ nextId' = nextId
          /\ Set(r, ok(o, Flush(records[q.id], q.loaded, o)))
       \/ /\ q.op = "delete"
          /\ records' = [i \in DOMAIN records \ {q.id} |-> records[i]]
          /\ nextId' = nextId
          /\ Set(r, ok(q.obj, IF q.id \in DOMAIN records THEN records[q.id]
                                                         ELSE NoRow))
       \/ /\ UNCHANGED <<records, nextId>>
          /\ Set(r, Raise(q, "commit_fail"))
    /\ UNCHANGED <<impl, files, nextKey, events, started, now>>

\* db.refresh(system_image): the object is read again from its row; it raises
\* when the read fails or the row is gone.
Refresh(r) ==
    /\ reqs[r].pc = "refresh"
    /\ LET q == reqs[r] IN
       \/ /\ q.id \in DOMAIN records
          /\ Set(r, [q EXCEPT !.obj = records[q.id], !.pc = "publish",
                              !.log = Log(q, "refresh")])
       \/ Set(r, Raise(q, "refresh_fail"))
    /\ UNCHANGED <<impl, records, nextId, files, nextKey, events, started, now>>

\* system_image_publisher.publish_system_image_event(kind, system_image_dict):
\* the message reaches the exchange, or the publisher fails to deliver it.
Publish(r) ==
    /\ reqs[r].pc = "publish"
    /\ LET q == reqs[r]
           next == IF AfterPublish(q.op) = "done"
                   THEN [q EXCEPT !.pc = "done", !.status = SuccessStatus(q.op)]
                   ELSE [q EXCEPT !.pc = AfterPublish(q.op)]
           msg == [operation |-> q.op, data |-> SystemImageDict(q.obj)]
       IN
       \/ /\ events' = Append(events, msg)
          /\ Set(r, [next EXCEPT !.log = Log(q, "publish"),
                                 !.sent = Append(q.sent, msg)])
       \/ /\ events' = events
          /\ Set(r, IF PublishRaises
                    THEN Raise(q, "publish_fail")
                    ELSE [next EXCEPT !.log = Log(q, "publish_lost"),
                                      !.sent = Append(q.sent, msg)])
    /\ UNCHANGED <<impl, records, nextId, files, nextKey, started, now>>

\* db.rollback() and `raise HTTPException(status_code=400, detail=str(e))`.
Rollback(r) ==
    /\ reqs[r].pc = "rollback"
    /\ Set(r, [reqs[r] EXCEPT !.pc = "done", !.status = 400,
                              !.log = Log(reqs[r], "rollback")])
    /\ UNCHANGED <<impl, records, nextId, files, nextKey, events, started, now>>

\* A second passes on the clock.
Tick ==
    /\ now < MaxNow
    /\ now' = now + 1
    /\ UNCHANGED <<impl, records, nextId, files, nextKey, events, reqs, started>>

\* The ids a request may name: the rows that were ever inserted, and one id
\* that never was.
Ids == 1..nextId

\* Handlers of several worker processes interleave at their collaborator
\* calls.  The requests taken are the ones that meet on a row: updates and
\* deletes of the row the catalog starts with.
ConcInit == Init /\ records # <<>>

ConcIds == {1}

ConcImages == {"absent", "png"}

ConcNext ==
    \/ \E r \in Slots, id \in ConcIds, n \in Names, o \in OsTypes,
          v \in Versions, d \in {"d1"}, i \in ConcImages :
          StartUpdate(r, id, n, o, v, d, i)
    \/ \E r \in Slots, id \in ConcIds : StartDelete(r, id)
    \/ \E r \in Slots : Upload(r)
    \/ \E r \in Slots : DeleteImageFileExists(r)
    \/ \E r \in Slots : DeleteImageFileRemove(r)
    \/ \E r \in Slots : Commit(r)
    \/ \E r \in Slots : Refresh(r)
    \/ \E r \in Slots : Publish(r)
    \/ \E r \in Slots : Rollback(r)

ConcSpec == ConcInit /\ [][ConcNext]_vars

\* One request at a time: the handlers are `async def` with no await in them,
\* so a worker's event loop runs each to its end before it takes the next.
\* A request reads the clock once, so the seconds pass between requests.
Quiet == \A r \in Slots : ~Running(r)

Next ==
    \/ \E r \in Slots, n \in Names, o \in OsTypes, v \in Versions,
          d \in Descriptions, i \in Images :
          Quiet /\ StartCreate(r, n, o, v, d, i)
    \/ \E r \in Slots, id \in Ids, n \in Names \cup {NoneStr},
          o \in OsTypes, v \in Versions, d \in Descriptions, i \in Images :
          Quiet /\ StartUpdate(r, id, n, o, v, d, i)
    \/ \E r \in Slots, id \in Ids : Quiet /\ StartDelete(r, id)
    \/ \E r \in Slots : Upload(r)
    \/ \E r \in Slots : DeleteImageFileExists(r)
    \/ \E r \in Slots : DeleteImageFileRemove(r)
    \/ \E r \in Slots : Commit(r)
    \/ \E r \in Slots : Refresh(r)
    \/ \E r \in Slots : Publish(r)
    \/ \E r \in Slots : Rollback(r)
    \/ Quiet /\ Tick

Spec == Init /\ [][Next]_vars

\* ------------------------------------------------------- reading a request
Has(q, e) == \E i \in DOMAIN q.log : q.log[i] = e

\* The place of the first e in the log, 0 when there is none.
Pos(q, e) == IF Has(q, e) THEN CHOOSE i \in DOMAIN q.log :
                                  q.log[i] = e /\ \A j \in 1..(i - 1) : q.log[j] # e
             ELSE 0

Done(q) == q.pc = "done"

\* The handler made its publish call (delivered or not).
Published(q) == Has(q, "publish") \/ Has(q, "publish_lost")

\* The place of the publish call in the log, 0 when it was not made.
PubPos(q) == IF Has(q, "publish") THEN Pos(q, "publish") ELSE Pos(q, "publish_lost")

\* delete has come to the removal of the record's image file.
RemovalAttempted(q) ==
    q.pc \in {"rmart_chk", "rmart_rm"} \/ Has(q, "rm_art") \/ Has(q, "rm_art_fail")

\* The request left the stores as it found them.
StoresUntouched(q) ==
    records = q.recs0 /\ files = q.files0 /\ events = q.events0

\* ------------------------------------------------------------------ claims

C3_DeleteOrdering ==
    \A r \in Slots : LET q == reqs[r] IN
        q.op = "delete"
        => /\ Published(q) => Has(q, "commit") /\ Pos(q, "commit") < PubPos(q)
           /\ RemovalAttempted(q) => Published(q)
           /\ Has(q, "rm_art") => PubPos(q) < Pos(q, "rm_art")
           /\ Has(q, "rm_art_fail")
                => /\ PubPos(q) < Pos(q, "rm_art_fail")
                   /\ q.id \notin DOMAIN records
                   /\ q.old_image_path \in files

C3_Witness ==
    \E r \in Slots : LET q == reqs[r] IN
        /\ q.op = "delete" /\ Done(q) /\ Has(q, "rm_art_fail")
        /\ q.id \in DOMAIN q.recs0 /\ q.id \notin DOMAIN records
        /\ Len(events) = Len(q.events0) + 1
        /\ events[Len(events)].operation = "delete"

\* C4 as stated: in create, update and delete, when the commit succeeded and
\* the publish call then fails, the request still answers its success.
C4_AsStated ==
    \A r \in Slots : LET q == reqs[r] IN
        (Done(q) /\ Has(q, "commit") /\ Has(q, "publish_lost"))
        => q.status = SuccessStatus(q.op)

\* C5 as stated: once the commit of a create or update has succeeded, the
\* request never deletes the artifact it stored; the committed row and the
\* file it references both remain.
C5_AsStated ==
    \A r \in Slots : LET q == reqs[r] IN
        (q.op \in {"create", "update"} /\ Has(q, "put") /\ Has(q, "commit"))
        => /\ ~Has(q, "rm_new")
           /\ q.new_image_path \in files
           /\ q.id \in DOMAIN records
           /\ records[q.id].image_path = q.new_image_path

\* C6 as stated: when delete's commit succeeded and the removal of the image
\* file then fails, the request still answers success.
C6_AsStated ==
    \A r \in Slots : LET q == reqs[r] IN
        (q.op = "delete" /\ Done(q) /\ Has(q, "commit") /\ Has(q, "rm_art_fail"))
        => q.status = 200

\* C7: an update or delete naming an id that has no row answers 404 and has
\* called no collaborator: the table, the folder and the exchange are as they
\* were, also when the update carries a file.
C7_NotFoundNoSideEffects ==
    \A r \in Slots : LET q == reqs[r] IN
        (q.op \in {"update", "delete"} /\ q.id \notin DOMAIN q.recs0)
        => /\ Done(q) /\ q.status = 404
           /\ q.log = <<>>
           /\ StoresUntouched(q)

C7_Witness ==
    \E r \in Slots : LET q == reqs[r] IN
        /\ q.op = "update" /\ q.image = "png" /\ Done(q) /\ q.status = 404
        /\ q.recs0 # <<>> /\ q.files0 # {}

\* C8 as stated: a request publishes only after its own commit succeeded, a
\* request whose commit failed never publishes, and no request both commits
\* and rolls back.
C8_AsStated ==
    \A r \in Slots : LET q == reqs[r] IN
        /\ Published(q) => Has(q, "commit") /\ Pos(q, "commit") < PubPos(q)
        /\ Has(q, "commit_fail") => ~Published(q)
        /\ ~(Has(q, "commit") /\ Has(q, "rollback"))

\* C9 as stated: at every successful commit of a create or update, a non-null
\* image_path of the committed row names a file that exists in the folder.
C9_AsStated ==
    \A r \in Slots : LET q == reqs[r] IN
        (q.op \in {"create", "update"} /\ q.pc = "refresh")
        => \/ records[q.id].image_path = None
           \/ records[q.id].image_path \in files

\* C11 as stated: a successful update that carries no file part has written
\* the supplied form fields over the row and left every field the form does
\* not carry, and image_path, as they were; the row's updated_at is greater
\* than it was.
C11_AsStated ==
    \A r \in Slots : LET q == reqs[r] IN
        (q.op = "update" /\ Done(q) /\ q.status = 200 /\ q.image = "absent")
        => /\ \A f \in DOMAIN q.form :
                 records[q.id][f] = IF q.form[f] # NoneStr THEN q.form[f]
                                    ELSE q.recs0[q.id][f]
           /\ records[q.id].image_path = q.recs0[q.id].image_path
           /\ records[q.id].updated_at > q.recs0[q.id].updated_at

\* C10: a delete whose commit fails is rolled back and answers 400; the row
\* still exists, the folder is as it was (the row's image file is not removed)
\* and no delete event is published.
C10_DeleteCommitFailure ==
    \A r \in Slots : LET q == reqs[r] IN
        (q.op = "delete" /\ Done(q) /\ Has(q, "commit_fail"))
        => /\ q.log = <<"commit_fail", "rollback">>
           /\ q.status = 400
           /\ q.id \in DOMAIN records
           /\ StoresUntouched(q)

C10_Witness ==
    \E r \in Slots : LET q == reqs[r] IN
        /\ q.op = "delete" /\ Done(q) /\ Has(q, "commit_fail") /\ q.status = 400
        /\ q.old_image_path # None /\ q.old_image_path \in files
        /\ q.id \in DOMAIN records

\* C12 as stated: a create whose commit failed and whose compensating removal
\* of the stored file failed too still rolls the transaction back and answers
\* 400.
C12_AsStated ==
    \A r \in Slots : LET q == reqs[r] IN
        (q.op = "create" /\ Done(q) /\ Has(q, "commit_fail") /\ Has(q, "rm_new_fail"))
        => Has(q, "rollback") /\ q.status = 400

\* C13: a create whose upload fails ends there: the failed upload is the only
\* collaborator call it made (no insert, no commit, no publish call), the
\* table and the exchange are as they were.
C13_CreateStorageFailure ==
    \A r \in Slots : LET q == reqs[r] IN
        (q.op = "create" /\ (Has(q, "put_fail") \/ Has(q, "put_partial")))
        => /\ Done(q)
           /\ Len(q.log) = 1
           /\ q.sent = <<>>
           /\ records = q.recs0
           /\ events = q.events0

C13_Witness ==
    \E r \in Slots : LET q == reqs[r] IN
        /\ q.op = "create" /\ Done(q) /\ Has(q, "put_partial")
        /\ files # q.files0 /\ records = q.recs0 /\ q.recs0 # <<>>

\* The message a handler hands to the publisher for row o.
Message(op, o) ==
    [operation |-> op,
     data |-> [id |-> o.id, name |-> o.name, os_type |-> o.os_type,
               version |-> o.version, description |-> o.description,
               image_path |-> o.image_path]]

\* A collaborator call of the request failed.
Failed(q) ==
    \E e \in {"put_fail", "put_partial", "rm_old_fail", "commit_fail",
               "refresh_fail", "rm_new_fail", "rm_art_fail"} : Has(q, e)

\* C17: a create answered 201 whose request carries no file to store has
\* written nothing to the folder; the row it inserted and the entity it returns
\* have the form's fields, a new id and a null image_path; it made exactly one
\* publish call, of a create message with those fields, and a delivered
\* message is that one.
C17_CreateWithoutArtifact ==
    \A r \in Slots : LET q == reqs[r] IN
        (q.op = "create" /\ Done(q) /\ q.status = 201 /\ q.image \in {"absent", "empty"})
        => LET e == [id |-> q.id, name |-> q.form.name, os_type |-> q.form.os_type,
                     version |-> q.form.version, description |-> q.form.description,
                     image_path |-> None]
           IN  /\ files = q.files0
               /\ q.id \notin DOMAIN q.recs0 /\ q.id \in DOMAIN records
               /\ q.obj.image_path = None
               /\ \A f \in DOMAIN e : q.obj[f] = e[f] /\ records[q.id][f] = e[f]
               /\ q.sent = <<[operation |-> "create", data |-> e]>>
               /\ events \in {q.events0, Append(q.events0, q.sent[1])}

C17_Witness ==
    \E r \in Slots : LET q == reqs[r] IN
        /\ q.op = "create" /\ Done(q) /\ q.status = 201 /\ q.image = "empty"
        /\ q.form.description = "d1" /\ q.recs0 # <<>> /\ q.files0 # {}
        /\ events = Append(q.events0, q.sent[1])

\* C18: an update answered 200 made exactly one publish call, of an update
\* message carrying the row as this request committed it, which is the entity
\* it returns; a delete answered 200 made exactly one publish call, of a
\* delete message carrying the row as it was before the delete removed it.
C18_EventSnapshots ==
    \A r \in Slots : LET q == reqs[r] IN
        /\ (q.op = "update" /\ Done(q) /\ q.status = 200)
           => /\ q.sent = <<Message("update", records[q.id])>>
              /\ q.sent = <<Message("update", q.obj)>>
              /\ events \in {q.events0, Append(q.events0, q.sent[1])}
        /\ (q.op = "delete" /\ Done(q) /\ q.status = 200)
           => /\ q.sent = <<Message("delete", q.recs0[q.id])>>
              /\ q.id \notin DOMAIN records
              /\ events \in {q.events0, Append(q.events0, q.sent[1])}

C18_Witness ==
    \E r \in Slots : LET q == reqs[r] IN
        /\ q.op = "update" /\ Done(q) /\ q.status = 200 /\ Has(q, "put")
        /\ records[q.id] # q.recs0[q.id]
        /\ records[q.id].description = "d1"
        /\ events = Append(q.events0, Message("update", records[q.id]))

\* C19: in the router a create or update that carries a file whose extension
\* is not allowed is answered 400 (404 when update's id has no row) before any
\* collaborator call: no file is stored, the row's previous file is not
\* removed, no row is inserted or changed and no publish call is made.  Any
\* request answered 400 without having reached the except block is such a
\* refusal.
C19_ValidationBeforeSideEffects ==
    \A r \in Slots : LET q == reqs[r] IN
        /\ (q.op \in {"create", "update"} /\ impl = "routes" /\ q.image = "exe")
           => /\ Done(q)
              /\ q.status = IF q.op = "update" /\ q.id \notin DOMAIN q.recs0
                            THEN 404 ELSE 400
              /\ q.log = <<>> /\ q.sent = <<>>
              /\ StoresUntouched(q)
        /\ (Done(q) /\ q.status = 400 /\ ~Has(q, "rollback"))
           => /\ q.image = "exe"
              /\ q.log = <<>> /\ q.sent = <<>>
              /\ StoresUntouched(q)

C19_Witness ==
    \E r \in Slots : LET q == reqs[r] IN
        /\ q.op = "update" /\ q.image = "exe" /\ Done(q) /\ q.status = 400
        /\ q.recs0[q.id].image_path # None
        /\ q.recs0[q.id].image_path \in files
        /\ q.form.name # q.recs0[q.id].name /\ q.form.name # NoneStr

\* C20 as stated: a finished request whose id has no row answered 404, and
\* a finished request of which a collaborator call failed (the upload, a
\* removal of a file, the commit, the refresh) answered 400.
C20_AsStated ==
    \A r \in Slots : LET q == reqs[r] IN
        Done(q)
        => /\ (q.op \in {"update", "delete"} /\ q.id \notin DOMAIN q.recs0)
                => q.status = 404
           /\ Failed(q) => q.status = 400

\* C14 as stated: when a delete has answered 200 with every one of its
\* collaborator calls succeeding, the row is gone and so is the file the row
\* named when it was removed, whatever other requests on the same id did
\* meanwhile.
C14_AsStated ==
    \A r \in Slots : LET q == reqs[r] IN
        (q.op = "delete" /\ Done(q) /\ q.status = 200 /\ ~Failed(q)
            /\ Has(q, "publish"))
        => /\ q.id \notin DOMAIN records
           /\ q.row.image_path \notin files
           /\ q.old_image_path \notin files

\* C15 as stated: when two updates of the same id both have committed, every
\* field that both forms supply has, in the row as the later commit left it,
\* the value of the later one.
C15_AsStated ==
    \A r1, r2 \in Slots : LET q1 == reqs[r1]
                              q2 == reqs[r2] IN
        (r1 # r2 /\ q1.op = "update" /\ q2.op = "update" /\ q1.id = q2.id
            /\ Has(q1, "commit") /\ Has(q2, "commit") /\ r1 \in q2.prior)
        => \A f \in DOMAIN q2.form :
              (q1.form[f] # NoneStr /\ q2.form[f] # NoneStr)
              => q2.row[f] = q2.form[f]

\* C16 as stated: no two running requests are at a removal of the same file,
\* and a request that found its file present and is about to remove it still
\* has it in the folder.
C16_AsStated ==
    /\ \A r1, r2 \in Slots : LET q1 == reqs[r1]
                                 q2 == reqs[r2]
                                 rm == {"rmold_chk", "rmold_rm", "comp_chk",
                                        "comp_rm", "rmart_chk", "rmart_rm"} IN
          (r1 # r2 /\ q1.pc \in rm /\ q2.pc \in rm /\ DeleteTarget(q1) # None)
          => DeleteTarget(q1) # DeleteTarget(q2)
    /\ \A r \in Slots :
          reqs[r].pc \in {"rmold_rm", "comp_rm", "rmart_rm"}
          => DeleteTarget(reqs[r]) \in files

\* C21: an update of an existing row through the router that carries an empty
\* file part and no file removes the row's previous file before it attempts
\* the commit; once its commit has succeeded the row's image_path is null and
\* the update message it hands to the publisher carries a null image_path;
\* when its commit failed the row is as it was, its image_path still the
\* previous path, and the previous file is gone.
C21_UpdateClearArtifact ==
    \A r \in Slots : LET q == reqs[r] IN
        (q.op = "update" /\ impl = "routes" /\ q.image = "empty"
            /\ q.id \in DOMAIN q.recs0)
        => /\ ~Has(q, "put")
           /\ (Has(q, "commit") \/ Has(q, "commit_fail"))
                => /\ q.old_image_path \notin files
                   /\ q.old_image_path \in q.files0 => Has(q, "rm_old")
           /\ Has(q, "commit")
                => /\ records[q.id].image_path = None
                   /\ \A i \in DOMAIN q.sent :
                         /\ q.sent[i].operation = "update"
                         /\ q.sent[i].data.image_path = None
           /\ (Has(q, "commit") /\ Done(q) /\ q.status = 200) => Len(q.sent) = 1
           /\ Has(q, "commit_fail")
                => /\ records = q.recs0
                   /\ records[q.id].image_path = q.old_image_path
                   /\ q.sent = <<>>

C21_Witness ==
    \E r \in Slots : LET q == reqs[r] IN
        /\ q.op = "update" /\ impl = "routes" /\ q.image = "empty"
        /\ Done(q) /\ q.log = <<"rm_old", "commit_fail", "rollback">>
        /\ q.old_image_path # None /\ q.old_image_path \in q.files0
        /\ q.old_image_path \notin files
        /\ records[q.id].image_path = q.old_image_path

\* C23: a call of delete_image_file on a null path or on a path that names
\* no file removes nothing and raises nothing: a delete of a row whose
\* image_path is null or names no file (a file a request before it removed)
\* answers 200 with the folder as it was, and an update that stores a new file
\* for such a row goes on to its commit with only the new file added.
C23_DeleteMissingIsNoOp ==
    \A r \in Slots : LET q == reqs[r] IN
        (q.op \in {"update", "delete"} /\ q.id \in DOMAIN q.recs0
            /\ q.old_image_path \notin q.files0)
        => /\ ~Has(q, "rm_old") /\ ~Has(q, "rm_old_fail")
           /\ ~Has(q, "rm_art") /\ ~Has(q, "rm_art_fail")
           /\ q.pc \notin {"rmold_rm", "rmart_rm"}
           /\ (q.op = "delete" /\ Done(q) /\ Has(q, "commit"))
                => q.status = 200 /\ files = q.files0
           /\ (q.op = "update" /\ Has(q, "put") /\ q.pc = "commit")
                => files = q.files0 \cup {q.new_image_path}

C23_Witness ==
    \E r \in Slots : LET q == reqs[r] IN
        /\ q.op = "delete" /\ Done(q) /\ q.status = 200
        /\ q.old_image_path # None /\ q.old_image_path \notin q.files0
        /\ files = q.files0

\* C27 as stated: a request that answered a failure left the table exactly as
\* it found it.
C27_AsStated ==
    \A r \in Slots : LET q == reqs[r] IN
        (Done(q) /\ q.status \notin {200, 201}) => records = q.recs0

\* ------------------------------------------- the runs in which nothing fails
\* No collaborator call of a request in the slots has failed, the publish
\* call included.
NoFailure == \A r \in Slots : ~Failed(reqs[r]) /\ ~Has(reqs[r], "publish_lost")

\* The catalog right after create_tables: no row, no file.
CleanInit == Init /\ records = <<>>

\* One request at a time, every collaborator call returning normally.
CleanNext ==
    \/ \E r \in Slots, n \in Names, o \in OsTypes, v \in Versions,
          d \in Descriptions, i \in Images :
          Quiet /\ StartCreate(r, n, o, v, d, i)
    \/ \E r \in Slots, id \in Ids, n \in Names \cup {NoneStr},
          o \in OsTypes, v \in Versions, d \in Descriptions, i \in Images :
          Quiet /\ StartUpdate(r, id, n, o, v, d, i)
    \/ \E r \in Slots, id \in Ids : Quiet /\ StartDelete(r, id)
    \/ \E r \in Slots : Upload(r) /\ NoFailure'
    \/ \E r \in Slots : DeleteImageFileExists(r)
    \/ \E r \in Slots : DeleteImageFileRemove(r) /\ NoFailure'
    \/ \E r \in Slots : Commit(r) /\ NoFailure'
    \/ \E r \in Slots : Refresh(r) /\ NoFailure'
    \/ \E r \in Slots : Publish(r) /\ NoFailure'

CleanSpec == CleanInit /\ [][CleanNext]_vars

\* The paths the rows of the table name.
Referenced == {records[i].image_path : i \in DOMAIN records} \ {None}

\* C24: starting with no row and no file, with requests served one at a time
\* and no collaborator call failing, whenever no request is running the files
\* in the folder are exactly the paths the rows name.
C24_NoOrphansSequential == Quiet => files = Referenced

C24_Witness ==
    \E r \in Slots : LET q == reqs[r] IN
        /\ Quiet /\ started = MaxReq
        /\ q.op = "update" /\ q.status = 200 /\ Has(q, "put") /\ Has(q, "rm_old")
        /\ files = {q.new_image_path} /\ files = Referenced

\* C25 as stated: when the requests that ran interleaved on a row have all
\* finished and no collaborator call of theirs failed, the files in the folder
\* are exactly the paths the rows name.
C25_AsStated ==
    ((\A r \in Slots : reqs[r].op # "idle" /\ Done(reqs[r])) /\ NoFailure)
    => files = Referenced

\* C26 as stated: among the delivered messages about one id, none comes before
\* the create message and no create or update message comes after a delete
\* message.
C26_AsStated ==
    \A i, j \in DOMAIN events :
        (i < j /\ events[i].data.id = events[j].data.id)
        => /\ events[j].operation # "create"
           /\ events[i].operation = "delete"
                => events[j].operation \notin {"create", "update"}

\* ------------------------------------------------ a handler runs to its end
\* The next statement of the handler in slot r.
Step(r) ==
    \/ Upload(r)
    \/ DeleteImageFileExists(r)
    \/ DeleteImageFileRemove(r)
    \/ Commit(r)
    \/ Refresh(r)
    \/ Publish(r)
    \/ Rollback(r)

\* One request at a time, on one form.
LiveNext ==
    \/ \E r \in Slots, i \in Images :
          Quiet /\ StartCreate(r, "n2", "o1", "v1", NoneStr, i)
    \/ \E r \in Slots, id \in Ids, i \in Images :
          Quiet /\ StartUpdate(r, id, "n2", "o1", "v1", NoneStr, i)
    \/ \E r \in Slots, id \in Ids : Quiet /\ StartDelete(r, id)
    \/ \E r \in Slots : Upload(r)
    \/ \E r \in Slots : DeleteImageFileExists(r)
    \/ \E r \in Slots : DeleteImageFileRemove(r)
    \/ \E r \in Slots : Commit(r)
    \/ \E r \in Slots : Refresh(r)
    \/ \E r \in Slots : Publish(r)
    \/ \E r \in Slots : Rollback(r)

\* Every collaborator call returns or raises, and the handler then goes on
\* with its next statement; requests need not arrive.
LiveSpec == Init /\ [][LiveNext]_vars /\ \A r \in Slots : WF_vars(Step(r))

\* How many times e is in the log.
Count(q, e) == Cardinality({i \in DOMAIN q.log : q.log[i] = e})

\* At most one commit attempt, at most one publish call, no failed call made
\* again.
NoRetry(q) ==
    /\ Count(q, "commit") + Count(q, "commit_fail") <= 1
    /\ Count(q, "publish") + Count(q, "publish_lost") <= 1 /\ Len(q.sent) <= 1
    /\ \A e \in {"put_fail", "put_partial", "rm_old_fail", "refresh_fail",
                  "rm_new_fail", "rm_art_fail"} : Count(q, e) <= 1
    /\ Count(q, "put") + Count(q, "put_fail") + Count(q, "put_partial") <= 1
    /\ Count(q, "rm_old") + Count(q, "rm_old_fail") <= 1
    /\ Count(q, "rm_new") + Count(q, "rm_new_fail") <= 1
    /\ Count(q, "rm_art") + Count(q, "rm_art_fail") <= 1

\* C22: every request that is running comes to its answer, whichever of its
\* collaborator calls fail, and on the way it attempts at most one commit,
\* makes at most one publish call and repeats no call that failed.
C22_TerminatesWithoutRetry ==
    /\ [](\A r \in Slots : NoRetry(reqs[r]))
    /\ \A r \in Slots : Running(r) ~> (Done(reqs[r]) /\ reqs[r].status # 0)

C22_Witness ==
    \E r \in Slots : LET q == reqs[r] IN
        /\ q.op = "update" /\ Done(q) /\ q.status = 500
        /\ q.log = <<"put", "rm_old", "commit_fail", "rm_new_fail">>

====
